---- MODULE Spec2Model ----
(***************************************************************************)
(* The dashboard client static/js/main.js as a state machine.              *)
(*                                                                         *)
(* The browser runs one callback at a time; an async function gives up     *)
(* control only at an await of fetchJSON.  One action is therefore one     *)
(* run-to-the-next-await: an event handler up to its first fetch, or the   *)
(* continuation that a fetch's outcome resumes, up to the next fetch.      *)
(* A fetch has three outcomes: the JSON payload of a success, the JSON     *)
(* payload {error: ...}, or a rejection (network failure, bad JSON), which *)
(* no function of the file catches.                                        *)
(*                                                                         *)
(* window[canvasId] is unset until the first draw on that canvas: the page *)
(* markup is not part of the source, and the model takes no element of the *)
(* page to be reachable as a property of window under the canvas's id.     *)
(***************************************************************************)
EXTENDS Integers, Sequences, FiniteSets, TLC

\* Bound: refreshAll() invocations in one run (page load, reloads, uploads, forms).
MaxInv == 2

\* Bound: the user's actions on the upload widgets and the forms in one run.
MaxEvents == 3

CanvasIds == {"monthly-chart", "sales-chart", "segments-chart"}
Uploads == {"sales", "products", "customers"}
Forms == {"customer", "product"}
TextIds == {"total-sales", "total-orders", "total-customers", "top-products",
            "forecast-trend", "forecast-analysis", "product-predictions",
            "ai-analysis"}

----------------------------------------------------------------------------
(* JavaScript values.  An absent string is "", an absent number or object  *)
(* is <<>> and a present one <<v>>; in a chart's dataset a number is <<v>> *)
(* and null is <<>>.  Amounts are integers in thousandths.  "Rs" stands    *)
(* for the rupee sign.                                                     *)

Null == <<>>

Falsy(o) == o = <<>> \/ o = <<0>>

\* x || 0
OrZero(o) == IF Falsy(o) THEN 0 ELSE o[1]

\* a || b, for optional numbers
OrElse(a, b) == IF Falsy(a) THEN b ELSE a

\* Math.round(x * 100) / 100 on thousandths: to the nearest hundredth, halves up.
RoundCents(m) == ((m + 5) \div 10) * 10

\* Math.round(x) on thousandths, halves up; the result is a whole number.
RoundUnits(m) == (m + 500) \div 1000

\* currency(x): the symbol and the number rounded to 2 decimals (digit grouping
\* is a rendering of that number).
currency(o) ==
  IF o = <<>> THEN [sym |-> "Rs", milli |-> 0]
  ELSE [sym |-> "Rs", milli |-> RoundCents(o[1])]

toUpperCase(s) ==
  CASE s = "up" -> "UP"
    [] s = "down" -> "DOWN"
    [] OTHER -> s

\* parseFloat of a numeric string, in thousandths.
parseFloat(s) ==
  CASE s = "12.5" -> <<12500>>
    [] s = "7" -> <<7000>>
    [] OTHER -> <<0>>

\* f.ds.split('T')[0]: ds is kept as <<date, time>>.
DatePart(ds) == ds[1]

Map(f(_), s) == [k \in 1..Len(s) |-> f(s[k])]

----------------------------------------------------------------------------
(* Responses of the backend (spec section 6 gives their shapes).           *)

Reject == "reject"
Json == "json"

SummaryResponses ==
  { [st |-> Reject, error |-> "", total_sales |-> <<>>, total_orders |-> <<>>,
     total_customers |-> <<>>, top_products |-> <<>>, monthly |-> <<>>],
    [st |-> Json, error |-> "no data", total_sales |-> <<>>, total_orders |-> <<>>,
     total_customers |-> <<>>, top_products |-> <<>>, monthly |-> <<>>],
    [st |-> Json, error |-> "", total_sales |-> <<1234567>>, total_orders |-> <<3>>,
     total_customers |-> <<>>,
     top_products |-> << [description |-> "mug", Description |-> "",
                          sales |-> <<>>, Sales |-> <<99995>>],
                         [description |-> "", Description |-> "",
                          sales |-> <<>>, Sales |-> <<>>] >>,
     monthly |-> << [InvoiceDate |-> "2024-01", Sales |-> <<500000>>] >>] }

NoForecast ==
  [st |-> Json, error |-> "", trend |-> "", analysis |-> "", forecast |-> <<>>]

ForecastResponses ==
  { [st |-> Reject, error |-> "", trend |-> "", analysis |-> "", forecast |-> <<>>],
    [st |-> Json, error |-> "no model", trend |-> "", analysis |-> "",
     forecast |-> <<>>],
    [st |-> Json, error |-> "", trend |-> "up", analysis |-> "sales rise",
     forecast |-> << [ds |-> <<"2024-02-01", "00:00:00">>, y |-> "12.5"] >>],
    NoForecast }

ProductResponses ==
  { [st |-> Reject, error |-> "", product_forecast |-> <<>>],
    [st |-> Json, error |-> "no products", product_forecast |-> <<>>],
    [st |-> Json, error |-> "",
     product_forecast |-> << [product |-> "mug", next_mean |-> 2500] >>],
    [st |-> Json, error |-> "", product_forecast |-> <<>>] }

SegmentsResponses ==
  { [st |-> Reject, error |-> "", segments |-> <<>>],
    [st |-> Json, error |-> "no segments", segments |-> <<>>],
    [st |-> Json, error |-> "", segments |-> << << <<"A", 3>>, <<"B", 7>> >> >>],
    [st |-> Json, error |-> "", segments |-> <<>>] }

UploadResponses ==
  { [st |-> Reject, error |-> "", rows |-> 0],
    [st |-> Json, error |-> "bad csv", rows |-> 0],
    [st |-> Json, error |-> "", rows |-> 42] }

FormResponses ==
  { [st |-> Reject, error |-> ""],
    [st |-> Json, error |-> "duplicate"],
    [st |-> Json, error |-> ""] }

\* if (data.error)
HasError(p) == p.error # ""

----------------------------------------------------------------------------
VARIABLES
  loaded,      \* DOMContentLoaded has fired and the handlers are bound
  inv,         \* the refreshAll() invocations, in the order they started
  text,        \* innerText / innerHTML of the elements of TextIds
  window,      \* window[canvasId]: the id of a chart instance, 0 when unset
  charts,      \* the chart instances created and not destroyed; the instance
               \* that invocation i creates has id i
  files,       \* files[u]: a file is chosen in the upload's file input
  uploadMsg,   \* innerText of the upload's message span
  uploading,   \* upload click handlers waiting for their POST
  fields,      \* the form's inputs: "blank" or "filled"
  formMsg,     \* the form's message element: display, classList, innerText
  submitting,  \* submit handlers waiting for their POST
  lastResponse, \* history: the response the form's handlers resolved last
  events       \* history: the user's actions on the uploads and forms so far

vars == <<loaded, inv, text, window, charts, files, uploadMsg,
          uploading, fields, formMsg, submitting, lastResponse, events>>

refreshVars == <<inv, text, window, charts>>
uploadVars == <<files, uploadMsg, uploading>>
formVars == <<fields, formMsg, submitting, lastResponse>>

NoText == [val |-> <<>>, by |-> 0]

Init ==
  /\ loaded = FALSE
  /\ inv = <<>>
  /\ text = [e \in TextIds |-> NoText]
  /\ window = [c \in CanvasIds |-> 0]
  /\ charts = {}
  /\ files = [u \in Uploads |-> FALSE]
  /\ uploadMsg = [u \in Uploads |-> <<>>]
  /\ uploading = [u \in Uploads |-> 0]
  /\ fields = [f \in Forms |-> "blank"]
  /\ formMsg \in [Forms -> {[display |-> "", classList |-> cl, innerText |-> <<>>] :
                              cl \in {{}, {"text-success"}}}]
  /\ submitting = [f \in Forms |-> 0]
  /\ lastResponse = [f \in Forms |-> [st |-> "none", error |-> ""]]
  /\ events = 0

----------------------------------------------------------------------------
(* Chart.js: an instance is live from new Chart(...) until destroy().      *)

Chart(id, canvasId, type, labels, datasets) ==
  [id |-> id, canvas |-> canvasId, type |-> type, labels |-> labels,
   datasets |-> datasets]

\* window[canvasId].destroy()
Destroy(canvasId) == {c \in charts : c.id # window[canvasId]}

drawChart(i, canvasId, labels, dataArr, title) ==
  /\ charts' = (IF window[canvasId] # 0 THEN Destroy(canvasId) ELSE charts)
                 \cup {Chart(i, canvasId, "bar", labels,
                             << [label |-> title, data |-> dataArr] >>)}
  /\ window' = [window EXCEPT ![canvasId] = i]

\* Mutant: the line chart is created without destroying the one in the slot.
drawLineWithForecastLeak(i, canvasId, histLabels, histValues, fcLabels, fcValues) ==
  /\ charts' = charts
                 \cup {Chart(i, canvasId, "line", histLabels \o fcLabels,
                             << [label |-> "Historical", data |-> histValues],
                                [label |-> "Forecast",
                                 data |-> [k \in 1..Len(histValues) |-> Null]
                                            \o fcValues] >>)}
  /\ window' = [window EXCEPT ![canvasId] = i]

drawLineWithForecast(i, canvasId, histLabels, histValues, fcLabels, fcValues) ==
  /\ charts' = (IF window[canvasId] # 0 THEN Destroy(canvasId) ELSE charts)
                 \cup {Chart(i, canvasId, "line", histLabels \o fcLabels,
                             << [label |-> "Historical", data |-> histValues],
                                [label |-> "Forecast",
                                 data |-> [k \in 1..Len(histValues) |-> Null]
                                            \o fcValues] >>)}
  /\ window' = [window EXCEPT ![canvasId] = i]

\* The pie chart that loadSegments draws itself.
drawPie(i, labels, values) ==
  /\ charts' = (IF window["segments-chart"] # 0 THEN Destroy("segments-chart")
                ELSE charts)
                 \cup {Chart(i, "segments-chart", "pie", labels,
                             << [label |-> "", data |-> values] >>)}
  /\ window' = [window EXCEPT !["segments-chart"] = i]

NoDraw == UNCHANGED <<window, charts>>

----------------------------------------------------------------------------
(* refreshAll and the three loaders.  inv[i].pc names the fetch the        *)
(* invocation is waiting for; inv[i].ran is history, the loaders it has    *)
(* called so far.                                                          *)

Invs == 1..Len(inv)

\* POST handlers waiting for a response; each starts at most one refreshAll().
Waiting ==
  uploading["sales"] + uploading["products"] + uploading["customers"]
    + submitting["customer"] + submitting["product"]

\* The cap on refreshAll() invocations leaves room for every waiting handler.
Room == Len(inv) + Waiting < MaxInv

\* Mutant: refreshAll() calls loadForecasts first.
refreshAllForecastsFirst(origin) ==
  inv' = Append(inv, [pc |-> "forecast", origin |-> origin, res |-> NoForecast,
                      ran |-> <<"loadForecasts">>])

\* refreshAll() up to the first await: loadSummary has issued its fetch.
refreshAll(origin) ==
  inv' = Append(inv, [pc |-> "summary", origin |-> origin, res |-> NoForecast,
                      ran |-> <<"loadSummary">>])

\* History: what called refreshAll(), and for a POST handler whether the
\* response had no error field.
Origin(by, ok) == [by |-> by, ok |-> ok]

\* The loader that issues the fetch an invocation at pc waits for.
LoaderOf(pc) ==
  CASE pc = "summary" -> "loadSummary"
    [] pc \in {"forecast", "history", "product"} -> "loadForecasts"
    [] pc = "segments" -> "loadSegments"

\* The invocation goes on to the fetch that pc names; res is what loadForecasts
\* holds in its variable res across its awaits.
Fetch(i, pc, res) ==
  inv' = [inv EXCEPT ![i] =
            [pc |-> pc, origin |-> inv[i].origin, res |-> res,
             ran |-> IF LoaderOf(pc) = LoaderOf(inv[i].pc) THEN inv[i].ran
                     ELSE Append(inv[i].ran, LoaderOf(pc))]]

\* A fetch rejects: nothing catches it, the invocation's promise rejects.
Throw(i) ==
  /\ inv' = [inv EXCEPT ![i].pc = "failed", ![i].res = NoForecast]
  /\ UNCHANGED <<text, window, charts>>

\* The loaders touch neither the upload widgets nor the forms.
pageVars == <<loaded, files, uploadMsg, uploading, fields, formMsg, submitting,
              lastResponse, events>>

Write(t, i, e, v) == [t EXCEPT ![e] = [val |-> v, by |-> i]]

TopProductItem(p) ==
  [name |-> IF p.description # "" THEN p.description
            ELSE IF p.Description # "" THEN p.Description ELSE "Product",
   amount |-> currency(<<OrZero(OrElse(p.sales, p.Sales))>>)]

InvoiceDateOf(m) == m.InvoiceDate
SalesOf(m) == m.Sales

\* Mutant: loadSummary without the check of data.error.
loadSummaryNoErrorCheck(i, data) ==
  /\ inv[i].pc = "summary"
  /\ UNCHANGED pageVars
  /\ IF data.st = Reject THEN Throw(i)
     ELSE /\ Fetch(i, "forecast", NoForecast)
          /\ text' =
               Write(Write(Write(Write(text,
                 i, "total-sales", <<currency(<<OrZero(data.total_sales)>>)>>),
                 i, "total-orders", <<OrZero(data.total_orders)>>),
                 i, "total-customers", <<OrZero(data.total_customers)>>),
                 i, "top-products", Map(TopProductItem, data.top_products))
          /\ drawChart(i, "monthly-chart", Map(InvoiceDateOf, data.monthly),
                       Map(SalesOf, data.monthly), "Monthly Sales")

\* Mutant: loadSummary drops the response of an invocation that is not the latest.
loadSummaryLatestOnly(i, data) ==
  /\ inv[i].pc = "summary"
  /\ UNCHANGED pageVars
  /\ IF data.st = Reject THEN Throw(i)
     ELSE /\ Fetch(i, "forecast", NoForecast)
          /\ IF HasError(data) \/ i # Len(inv) THEN UNCHANGED text /\ NoDraw
             ELSE /\ text' =
                       Write(Write(Write(Write(text,
                         i, "total-sales", <<currency(<<OrZero(data.total_sales)>>)>>),
                         i, "total-orders", <<OrZero(data.total_orders)>>),
                         i, "total-customers", <<OrZero(data.total_customers)>>),
                         i, "top-products", Map(TopProductItem, data.top_products))
                  /\ drawChart(i, "monthly-chart", Map(InvoiceDateOf, data.monthly),
                               Map(SalesOf, data.monthly), "Monthly Sales")

\* loadSummary from its await on, then loadForecasts up to its first await.
loadSummary(i, data) ==
  /\ inv[i].pc = "summary"
  /\ UNCHANGED pageVars
  /\ IF data.st = Reject THEN Throw(i)
     ELSE /\ Fetch(i, "forecast", NoForecast)
          /\ IF HasError(data) THEN UNCHANGED text /\ NoDraw
             ELSE /\ text' =
                       Write(Write(Write(Write(text,
                         i, "total-sales", <<currency(<<OrZero(data.total_sales)>>)>>),
                         i, "total-orders", <<OrZero(data.total_orders)>>),
                         i, "total-customers", <<OrZero(data.total_customers)>>),
                         i, "top-products", Map(TopProductItem, data.top_products))
                  /\ drawChart(i, "monthly-chart", Map(InvoiceDateOf, data.monthly),
                               Map(SalesOf, data.monthly), "Monthly Sales")

\* loadForecasts after /api/forecast: return on an error (loadSegments starts),
\* else keep res and fetch the summary for the history.
loadForecasts(i, res) ==
  /\ inv[i].pc = "forecast"
  /\ UNCHANGED pageVars
  /\ IF res.st = Reject THEN Throw(i)
     ELSE /\ IF HasError(res)
             THEN Fetch(i, "segments", NoForecast)
             ELSE Fetch(i, "history", res)
          /\ UNCHANGED text
          /\ NoDraw

ForecastDate(f) == DatePart(f.ds)
ForecastValue(f) == parseFloat(f.y)

\* Mutant: loadForecasts draws the chart but leaves the trend and the analysis
\* for after the product forecast.
loadForecastsHistoryNoText(i, summary) ==
  /\ inv[i].pc = "history"
  /\ UNCHANGED pageVars
  /\ IF summary.st = Reject THEN Throw(i)
     ELSE LET res == inv[i].res
          IN /\ drawLineWithForecast(i, "sales-chart",
                                     Map(InvoiceDateOf, summary.monthly),
                                     Map(SalesOf, summary.monthly),
                                     Map(ForecastDate, res.forecast),
                                     Map(ForecastValue, res.forecast))
             /\ UNCHANGED text
             /\ Fetch(i, "product", res)

\* loadForecasts after the second /api/summary: the sales chart, trend, analysis.
loadForecastsHistory(i, summary) ==
  /\ inv[i].pc = "history"
  /\ UNCHANGED pageVars
  /\ IF summary.st = Reject THEN Throw(i)
     ELSE LET res == inv[i].res
              trend == Write(text, i, "forecast-trend",
                             <<IF res.trend # "" THEN toUpperCase(res.trend) ELSE "-">>)
          IN /\ drawLineWithForecast(i, "sales-chart",
                                     Map(InvoiceDateOf, summary.monthly),
                                     Map(SalesOf, summary.monthly),
                                     Map(ForecastDate, res.forecast),
                                     Map(ForecastValue, res.forecast))
             /\ text' = IF res.analysis # ""
                        THEN Write(trend, i, "forecast-analysis", <<res.analysis>>)
                        ELSE trend
             /\ Fetch(i, "product", res)

PredictionItem(p) == [product |-> p.product, qty |-> RoundUnits(p.next_mean)]
ProductOf(p) == p.product

\* loadForecasts after /api/product-forecast, then loadSegments up to its await.
loadForecastsProduct(i, prodRes) ==
  /\ inv[i].pc = "product"
  /\ UNCHANGED pageVars
  /\ IF prodRes.st = Reject THEN Throw(i)
     ELSE LET res == inv[i].res
              items == IF ~HasError(prodRes)
                       THEN Map(PredictionItem, prodRes.product_forecast)
                       ELSE <<>>
              top == SubSeq(prodRes.product_forecast, 1,
                            IF Len(prodRes.product_forecast) < 3
                            THEN Len(prodRes.product_forecast) ELSE 3)
          IN /\ text' = Write(Write(text,
                          i, "product-predictions", items),
                          i, "ai-analysis",
                          <<[summary |-> res.analysis, top |-> Map(ProductOf, top)]>>)
             /\ NoDraw
             /\ Fetch(i, "segments", NoForecast)

Key(kv) == kv[1]
Value(kv) == <<kv[2]>>

\* loadSegments from its await on; refreshAll then returns.
loadSegments(i, d) ==
  /\ inv[i].pc = "segments"
  /\ UNCHANGED pageVars
  /\ IF d.st = Reject THEN Throw(i)
     ELSE /\ inv' = [inv EXCEPT ![i].pc = "done"]
          /\ UNCHANGED text
          /\ IF HasError(d) THEN NoDraw
             ELSE drawPie(i, IF d.segments # <<>> THEN Map(Key, d.segments[1])
                          ELSE <<"No Data">>,
                          IF d.segments # <<>> THEN Map(Value, d.segments[1])
                          ELSE << <<1>> >>)

----------------------------------------------------------------------------
(* The handlers bound at DOMContentLoaded.                                 *)

DOMContentLoaded ==
  /\ ~loaded
  /\ loaded' = TRUE
  /\ refreshAll(Origin("load", TRUE))
  /\ UNCHANGED <<text, window, charts, uploadVars, formVars, events>>

\* click on reload-summary
ReloadClick ==
  /\ loaded
  /\ Room
  /\ refreshAll(Origin("reload", TRUE))
  /\ UNCHANGED <<loaded, text, window, charts, uploadVars, formVars, events>>

\* The user's actions on the widgets are counted, up to MaxEvents.
UserEvent == events < MaxEvents /\ events' = events + 1

\* The user picks a file, or clears the choice.
ChooseFile(u) ==
  /\ loaded
  /\ UserEvent
  /\ files' = [files EXCEPT ![u] = ~files[u]]
  /\ UNCHANGED <<loaded, refreshVars, uploadMsg, uploading, formVars>>

\* click on upload-<u>, up to the await of the POST
UploadClick(u) ==
  /\ loaded
  /\ UserEvent
  /\ IF ~files[u]
     THEN /\ uploadMsg' = [uploadMsg EXCEPT ![u] = <<"Choose a CSV first.">>]
          /\ UNCHANGED uploading
     ELSE /\ Room
          /\ uploadMsg' = [uploadMsg EXCEPT ![u] = <<"Uploading...">>]
          /\ uploading' = [uploading EXCEPT ![u] = @ + 1]
  /\ UNCHANGED <<loaded, refreshVars, files, formVars>>

\* Mutant: the click handler shows the outcome and does not call refreshAll().
UploadResponseNoRefresh(u, res) ==
  /\ uploading[u] > 0
  /\ uploading' = [uploading EXCEPT ![u] = @ - 1]
  /\ IF res.st = Reject THEN UNCHANGED uploadMsg
     ELSE uploadMsg' = [uploadMsg EXCEPT ![u] =
                          IF HasError(res) THEN <<"Error: ", res.error>>
                          ELSE <<"Uploaded ", res.rows, " rows.">>]
  /\ UNCHANGED <<loaded, inv, text, window, charts, files, formVars, events>>

\* the click handler after the POST, up to the first await inside refreshAll()
UploadResponse(u, res) ==
  /\ uploading[u] > 0
  /\ uploading' = [uploading EXCEPT ![u] = @ - 1]
  /\ IF res.st = Reject THEN UNCHANGED <<uploadMsg, inv>>
     ELSE /\ uploadMsg' = [uploadMsg EXCEPT ![u] =
                             IF HasError(res) THEN <<"Error: ", res.error>>
                             ELSE <<"Uploaded ", res.rows, " rows.">>]
          /\ refreshAll(Origin(u, ~HasError(res)))
  /\ UNCHANGED <<loaded, text, window, charts, files, formVars, events>>

\* The user types into the form.
EditForm(f) ==
  /\ loaded
  /\ UserEvent
  /\ fields[f] = "blank"
  /\ fields' = [fields EXCEPT ![f] = "filled"]
  /\ UNCHANGED <<loaded, refreshVars, uploadVars, formMsg, submitting, lastResponse>>

\* submit of <f>-form, up to the await of the POST
FormSubmit(f) ==
  /\ loaded
  /\ UserEvent
  /\ Room
  /\ submitting' = [submitting EXCEPT ![f] = @ + 1]
  /\ UNCHANGED <<loaded, refreshVars, uploadVars, fields, formMsg, lastResponse>>

\* Mutant: the error branch adds text-danger and does not remove text-success.
FormResponseKeepsSuccess(f, res) ==
  /\ submitting[f] > 0
  /\ submitting' = [submitting EXCEPT ![f] = @ - 1]
  /\ IF res.st = Reject THEN UNCHANGED <<formMsg, fields, inv, lastResponse>>
     ELSE /\ lastResponse' = [lastResponse EXCEPT ![f] = res]
          /\ IF HasError(res)
             THEN /\ formMsg' = [formMsg EXCEPT ![f] =
                       [display |-> "block",
                        classList |-> @.classList \cup {"text-danger"},
                        innerText |-> <<"Error: ", res.error>>]]
                  /\ UNCHANGED <<fields, inv>>
             ELSE /\ formMsg' = [formMsg EXCEPT ![f] =
                       [display |-> "block",
                        classList |-> (@.classList \ {"text-danger"})
                                        \cup {"text-success"},
                        innerText |-> <<IF f = "customer" THEN "Customer added."
                                        ELSE "Product & sale recorded.">>]]
                  /\ fields' = [fields EXCEPT ![f] = "blank"]
                  /\ refreshAll(Origin(f, TRUE))
  /\ UNCHANGED <<loaded, text, window, charts, uploadVars, events>>

\* the submit handler after the POST
FormResponse(f, res) ==
  /\ submitting[f] > 0
  /\ submitting' = [submitting EXCEPT ![f] = @ - 1]
  /\ IF res.st = Reject THEN UNCHANGED <<formMsg, fields, inv, lastResponse>>
     ELSE /\ lastResponse' = [lastResponse EXCEPT ![f] = res]
          /\ IF HasError(res)
             THEN /\ formMsg' = [formMsg EXCEPT ![f] =
                       [display |-> "block",
                        classList |-> (@.classList \ {"text-success"})
                                        \cup {"text-danger"},
                        innerText |-> <<"Error: ", res.error>>]]
                  /\ UNCHANGED <<fields, inv>>
             ELSE /\ formMsg' = [formMsg EXCEPT ![f] =
                       [display |-> "block",
                        classList |-> (@.classList \ {"text-danger"})
                                        \cup {"text-success"},
                        innerText |-> <<IF f = "customer" THEN "Customer added."
                                        ELSE "Product & sale recorded.">>]]
                  /\ fields' = [fields EXCEPT ![f] = "blank"]
                  /\ refreshAll(Origin(f, TRUE))
  /\ UNCHANGED <<loaded, text, window, charts, uploadVars, events>>

Next ==
  \/ DOMContentLoaded
  \/ ReloadClick
  \/ \E i \in Invs : \E data \in SummaryResponses : loadSummary(i, data)
  \/ \E i \in Invs : \E res \in ForecastResponses : loadForecasts(i, res)
  \/ \E i \in Invs : \E summary \in SummaryResponses : loadForecastsHistory(i, summary)
  \/ \E i \in Invs : \E prodRes \in ProductResponses : loadForecastsProduct(i, prodRes)
  \/ \E i \in Invs : \E d \in SegmentsResponses : loadSegments(i, d)
  \/ \E u \in Uploads : ChooseFile(u)
  \/ \E u \in Uploads : UploadClick(u)
  \/ \E u \in Uploads : \E res \in UploadResponses : UploadResponse(u, res)
  \/ \E f \in Forms : EditForm(f)
  \/ \E f \in Forms : FormSubmit(f)
  \/ \E f \in Forms : \E res \in FormResponses : FormResponse(f, res)

Spec == Init /\ [][Next]_vars

\* The page whose form message elements carry no class in the markup: no action
\* but a form's reads or writes the form's message element.
InitPlain == Init /\ \A f \in Forms : formMsg[f].classList = {}

\* The page with only the reload button used.
NextRefresh ==
  \/ DOMContentLoaded
  \/ ReloadClick
  \/ \E i \in Invs : \E data \in SummaryResponses : loadSummary(i, data)
  \/ \E i \in Invs : \E res \in ForecastResponses : loadForecasts(i, res)
  \/ \E i \in Invs : \E summary \in SummaryResponses : loadForecastsHistory(i, summary)
  \/ \E i \in Invs : \E prodRes \in ProductResponses : loadForecastsProduct(i, prodRes)
  \/ \E i \in Invs : \E d \in SegmentsResponses : loadSegments(i, d)

SpecRefresh == InitPlain /\ [][NextRefresh]_vars

\* The page with only the upload widgets used.
NextUploads ==
  \/ DOMContentLoaded
  \/ \E i \in Invs : \E data \in SummaryResponses : loadSummary(i, data)
  \/ \E i \in Invs : \E res \in ForecastResponses : loadForecasts(i, res)
  \/ \E i \in Invs : \E summary \in SummaryResponses : loadForecastsHistory(i, summary)
  \/ \E i \in Invs : \E prodRes \in ProductResponses : loadForecastsProduct(i, prodRes)
  \/ \E i \in Invs : \E d \in SegmentsResponses : loadSegments(i, d)
  \/ \E u \in Uploads : ChooseFile(u)
  \/ \E u \in Uploads : UploadClick(u)
  \/ \E u \in Uploads : \E res \in UploadResponses : UploadResponse(u, res)

SpecUploads == InitPlain /\ [][NextUploads]_vars

\* The page with only the two forms used, seen up to the forms' variables: the
\* loaders' steps are left out, since they change none of pageVars and the form
\* handlers read nothing the loaders write (Room counts invocations, whatever
\* their progress).
NextForms ==
  \/ DOMContentLoaded
  \/ \E f \in Forms : EditForm(f)
  \/ \E f \in Forms : FormSubmit(f)
  \/ \E f \in Forms : \E res \in FormResponses : FormResponse(f, res)

SpecForms == Init /\ [][NextForms]_vars

----------------------------------------------------------------------------
(* Properties.                                                             *)

Ok(p) == p.st = Json /\ ~HasError(p)
Failing(p) == p.st = Json /\ HasError(p)
On(c) == {ch \in charts : ch.canvas = c}
Stopped(i) == inv[i].pc \in {"done", "failed"}
AllLoaders == <<"loadSummary", "loadForecasts", "loadSegments">>

C2_LoadersInSequence ==
  /\ [](\A i \in Invs :
          /\ \E n \in 1..3 : inv[i].ran = SubSeq(AllLoaders, 1, n)
          /\ ~Stopped(i) => LoaderOf(inv[i].pc) = inv[i].ran[Len(inv[i].ran)]
          /\ inv[i].pc = "done" => inv[i].ran = AllLoaders)
  /\ [][\A i \in 1..Len(inv') :
          LET before == IF i <= Len(inv) THEN inv[i].pc ELSE "none"
              after == inv'[i].pc
          IN after # before =>
               CASE after = "summary" -> before = "none"
                 [] after = "forecast" -> before = "summary"
                 [] after = "history" -> before = "forecast"
                 [] after = "product" -> before = "history"
                 [] after = "segments" -> before \in {"forecast", "product"}
                 [] after = "done" -> before = "segments"
                 [] OTHER -> before \notin {"none", "done"}]_vars

\* An invocation has returned after all five of its fetches resolved.
C2_Witness ==
  /\ Len(inv) >= 1
  /\ inv[1].pc = "done"
  /\ text["total-sales"].by = 1
  /\ text["ai-analysis"].by = 1
  /\ window["segments-chart"] = 1

\* C3: a loader whose first fetch brings an error payload writes no text, draws no
\* chart and fetches nothing more: the invocation goes on to the next loader (or
\* returns, after loadSegments) with every element and chart as it was.
C3_ErrorPayloadLeavesDom ==
  [][\A i \in Invs :
       /\ \A data \in SummaryResponses :
            loadSummary(i, data) /\ Failing(data) =>
              /\ text' = text /\ window' = window /\ charts' = charts
              /\ inv'[i].pc = "forecast"
       /\ \A res \in ForecastResponses :
            loadForecasts(i, res) /\ Failing(res) =>
              /\ text' = text /\ window' = window /\ charts' = charts
              /\ inv'[i].pc = "segments"
       /\ \A d \in SegmentsResponses :
            loadSegments(i, d) /\ Failing(d) =>
              /\ text' = text /\ window' = window /\ charts' = charts
              /\ inv'[i].pc = "done"]_vars

\* An invocation has returned with the page untouched: each loader got an error.
C3_Witness ==
  /\ Len(inv) = 1
  /\ inv[1].pc = "done"
  /\ inv[1].ran = AllLoaders
  /\ text = [e \in TextIds |-> NoText]
  /\ charts = {}

TrendText(res) == <<IF res.trend # "" THEN toUpperCase(res.trend) ELSE "-">>

\* C4, as stated: once the forecast has arrived and the history fetch resolved,
\* forecast-trend and forecast-analysis show that response's trend and analysis
\* (an analysis element that shows nothing agrees with an empty analysis).
C4_Original ==
  [][\A i \in Invs : \A summary \in SummaryResponses :
       loadForecastsHistory(i, summary) /\ summary.st = Json =>
         /\ text'["forecast-trend"].val = TrendText(inv[i].res)
         /\ \/ text'["forecast-analysis"].val = <<inv[i].res.analysis>>
            \/ inv[i].res.analysis = "" /\ text'["forecast-analysis"].val = <<>>]_vars

\* C4, amended: with the forecast arrived and the history fetch resolved,
\* loadForecasts sets forecast-trend from that response (upper-cased, "-" when
\* it has none) and forecast-analysis when the response's analysis is not empty,
\* else leaves the analysis shown as it was; it does so before it issues the
\* product-forecast call, and no outcome of that call (a payload, an error
\* payload, a rejection) changes either element.
C4_TrendBeforeProductForecast ==
  [][\A i \in Invs :
       /\ \A summary \in SummaryResponses :
            loadForecastsHistory(i, summary) /\ summary.st = Json =>
              /\ text'["forecast-trend"] = [val |-> TrendText(inv[i].res), by |-> i]
              /\ text'["forecast-analysis"] =
                   IF inv[i].res.analysis # ""
                   THEN [val |-> <<inv[i].res.analysis>>, by |-> i]
                   ELSE text["forecast-analysis"]
              /\ inv'[i].pc = "product"
       /\ \A prodRes \in ProductResponses :
            loadForecastsProduct(i, prodRes) =>
              /\ text'["forecast-trend"] = text["forecast-trend"]
              /\ text'["forecast-analysis"] = text["forecast-analysis"]]_vars

\* The product-forecast fetch was rejected; the trend and analysis of the forecast
\* response are on the page.
C4_Witness ==
  /\ Len(inv) = 1
  /\ inv[1].pc = "failed"
  /\ text["forecast-trend"] = [val |-> <<"UP">>, by |-> 1]
  /\ text["forecast-analysis"] = [val |-> <<"sales rise">>, by |-> 1]
  /\ text["product-predictions"].by = 0

\* C9, as stated, in part: every invocation runs to completion.
C9_Original == \A i \in Invs : inv[i].pc # "failed"

\* C9, amended: invocations are neither deduplicated nor serialized.  A step
\* changes one invocation only; an invocation that returns has called all three
\* loaders itself, and it stops short only when a fetch of its own rejects;
\* each write of a resolving response lands whatever the other invocations are
\* doing and whichever started last, so an element holds what the response that
\* resolved last for it wrote.
C9_IndependentInvocations ==
  [][/\ Len(inv') >= Len(inv)
     /\ Cardinality({j \in Invs : inv'[j] # inv[j]}) <= 1
     /\ \A i \in Invs :
          /\ inv'[i].pc = "done" => inv'[i].ran = AllLoaders
          /\ inv'[i].pc = "failed" /\ inv[i].pc # "failed" =>
               /\ \A j \in Invs \ {i} : inv'[j] = inv[j]
               /\ text' = text /\ charts' = charts /\ window' = window
          /\ \A data \in SummaryResponses :
               loadSummary(i, data) /\ Ok(data) =>
                 /\ \A e \in {"total-sales", "total-orders", "total-customers",
                              "top-products"} : text'[e].by = i
                 /\ window'["monthly-chart"] = i
          /\ \A summary \in SummaryResponses :
               loadForecastsHistory(i, summary) /\ summary.st = Json =>
                 /\ text'["forecast-trend"].by = i
                 /\ window'["sales-chart"] = i
          /\ \A prodRes \in ProductResponses :
               loadForecastsProduct(i, prodRes) /\ prodRes.st = Json =>
                 /\ text'["product-predictions"].by = i
                 /\ text'["ai-analysis"].by = i
          /\ \A d \in SegmentsResponses :
               loadSegments(i, d) /\ Ok(d) => window'["segments-chart"] = i]_vars

\* Two overlapping invocations have both returned; both wrote the trend, and the
\* trend left on the page is the one the invocation started first wrote.
C9_Witness ==
  /\ Len(inv) = 2
  /\ inv[1].pc = "done" /\ inv[2].pc = "done"
  /\ text["forecast-trend"].by = 1
  /\ text["ai-analysis"].by = 2
  /\ text["total-sales"].by = 2

\* C10: an error payload from /api/product-forecast leaves the product-predictions
\* list as it was, and one from the second /api/summary leaves the sales chart
\* as it was.
C10_SecondaryErrorLeavesDom ==
  [][\A i \in Invs :
       /\ \A prodRes \in ProductResponses :
            loadForecastsProduct(i, prodRes) /\ Failing(prodRes) =>
              text'["product-predictions"].val = text["product-predictions"].val
       /\ \A summary \in SummaryResponses :
            loadForecastsHistory(i, summary) /\ Failing(summary) =>
              On("sales-chart")' = On("sales-chart")]_vars

UploadOk(i) == inv[i].origin.by \in Uploads /\ inv[i].origin.ok

\* C5, as stated: after an upload whose response has no error field, the refresh
\* that the handler starts runs loadSummary, loadForecasts and loadSegments.
C5_Original == \A i \in Invs : UploadOk(i) /\ Stopped(i) => inv[i].ran = AllLoaders

\* C5, amended: when the POST response of an upload is {rows: N} with no error
\* field, the message reads "Uploaded N rows." and refreshAll() is started:
\* loadSummary runs at once and re-fetches /api/summary, and loadForecasts and
\* loadSegments run and re-fetch in turn as long as each fetch of the cycle
\* resolves; a rejected fetch ends the cycle there.
C5_UploadStartsRefresh ==
  /\ [](\A i \in Invs : UploadOk(i) =>
          /\ inv[i].ran[1] = "loadSummary"
          /\ inv[i].pc = "done" => inv[i].ran = AllLoaders)
  /\ [][/\ \A u \in Uploads : \A res \in UploadResponses :
             UploadResponse(u, res) /\ Ok(res) =>
               /\ uploadMsg'[u] = <<"Uploaded ", res.rows, " rows.">>
               /\ Len(inv') = Len(inv) + 1
               /\ inv'[Len(inv')].pc = "summary"
               /\ inv'[Len(inv')].origin = Origin(u, TRUE)
        /\ \A i \in Invs : UploadOk(i) =>
             /\ \A data \in SummaryResponses :
                  loadSummary(i, data) /\ data.st = Json =>
                    inv'[i].pc = "forecast" /\ inv'[i].ran[2] = "loadForecasts"
             /\ \A res \in ForecastResponses :
                  loadForecasts(i, res) /\ res.st = Json =>
                    inv'[i].pc = IF HasError(res) THEN "segments" ELSE "history"
             /\ \A summary \in SummaryResponses :
                  loadForecastsHistory(i, summary) /\ summary.st = Json =>
                    inv'[i].pc = "product"
             /\ \A prodRes \in ProductResponses :
                  loadForecastsProduct(i, prodRes) /\ prodRes.st = Json =>
                    inv'[i].pc = "segments" /\ inv'[i].ran[3] = "loadSegments"
             /\ \A d \in SegmentsResponses :
                  loadSegments(i, d) /\ d.st = Json => inv'[i].pc = "done"]_vars

\* The sales upload answered {rows: 42}; the refresh it started has returned.
C5_Witness ==
  /\ uploadMsg["sales"] = <<"Uploaded ", 42, " rows.">>
  /\ Len(inv) = 2
  /\ inv[2].origin = Origin("sales", TRUE)
  /\ inv[2].pc = "done"
  /\ text["ai-analysis"].by = 2

\* C6: each of the five widgets resets its input or form when the response has
\* no error field, and leaves it alone when the response has one.
C6_ResetOnSuccessOnly ==
  [][/\ \A u \in Uploads : \A res \in UploadResponses :
          /\ UploadResponse(u, res) /\ Ok(res) => ~files'[u]
          /\ UploadResponse(u, res) /\ Failing(res) => files'[u] = files[u]
     /\ \A f \in Forms : \A res \in FormResponses :
          /\ FormResponse(f, res) /\ Ok(res) => fields'[f] = "blank"
          /\ FormResponse(f, res) /\ Failing(res) => fields'[f] = fields[f]]_vars

\* C7: when the response a form's handlers resolved last has an error field E,
\* the message element reads "Error: E" and has the class text-danger and not
\* text-success; it never has both classes; the handler that gets an error
\* response neither resets the form nor starts a refresh.
C7_FormErrorShown ==
  /\ [](\A f \in Forms :
          /\ ~({"text-danger", "text-success"} \subseteq formMsg[f].classList)
          /\ lastResponse[f].st = Json /\ lastResponse[f].error # "" =>
               /\ formMsg[f].innerText = <<"Error: ", lastResponse[f].error>>
               /\ formMsg[f].display = "block"
               /\ "text-danger" \in formMsg[f].classList
               /\ "text-success" \notin formMsg[f].classList)
  /\ [][\A f \in Forms : \A res \in FormResponses :
          FormResponse(f, res) /\ Failing(res) =>
            /\ lastResponse'[f] = res
            /\ fields' = fields
            /\ inv' = inv]_vars

\* The customer form, filled in, got {error: "duplicate"} after an earlier
\* submission: it is still filled in and the message is styled as a failure.
C7_Witness ==
  /\ events = 3
  /\ fields["customer"] = "filled"
  /\ lastResponse["customer"].error = "duplicate"
  /\ formMsg["customer"] = [display |-> "block", classList |-> {"text-danger"},
                            innerText |-> <<"Error: ", "duplicate">>]
  /\ submitting["customer"] = 0

\* C8: an upload whose response has an error field writes its own message
\* element and nothing else: no refresh starts, no other element changes.
C8_FailedUploadIsLocal ==
  [][\A u \in Uploads : \A res \in UploadResponses :
       UploadResponse(u, res) /\ Failing(res) =>
         /\ inv' = inv
         /\ text' = text /\ window' = window /\ charts' = charts
         /\ \A v \in Uploads \ {u} : uploadMsg'[v] = uploadMsg[v]
         /\ formMsg' = formMsg /\ fields' = fields /\ files' = files]_vars

====
